---- MODULE Spec2Model ----
(***************************************************************************)
(* Model of src/tools.ts of vue3-sfc-loader: the single-flight module      *)
(* cache (loadModuleInternal), the dependency loader (loadDeps), the       *)
(* execution context (createModule), the script path (createJSModule) and  *)
(* the compilation cache (hash, withCache).                                *)
(*                                                                         *)
(* JavaScript runs one synchronous segment at a time; every action below   *)
(* is one such segment (the code between two awaits).  A continuation that *)
(* only hands a value to its awaiter is folded into the next segment.      *)
(***************************************************************************)
EXTENDS Integers, Sequences, FiniteSets, TLC

\* ------------------------------------------------------------------ bounds
NIds == 4
MaxUserCalls == 2
MaxLate == 1
MaxWc == 3

Ids == 1..NIds
\* relative references: 0 is '.', NIds is a second spelling of '.'
Rels == 0..NIds
\* a reference options.getResource cannot resolve: it throws
BadRel == NIds + 2
\* the references an outside caller uses
UserRels == (0..2) \cup {BadRel}

\* ------------------------------------------------------------------ values
\* Every module value, error and "no value" is one record shape.
V(t, id, n) == [t |-> t, id |-> id, n |-> n]
NoVal == V("none", 0, 0)
ErrKinds == {"E_resolve", "E_hook", "E_fetch", "E_content", "E_handle", "E_unsupported",
             "E_sfc", "E_transform", "E_exec", "E_notfound"}
IsErr(v) == v.t \in ErrKinds
IsVal(v) == v.t \in {"exports", "hook", "handled", "null", "sfc"}

\* module cache entries: absent, Loading(promise p), or a module value
Absent == [k |-> "absent", p |-> 0, v |-> NoVal]
Loading(p) == [k |-> "loading", p |-> p, v |-> NoVal]
Value(v) == [k |-> "value", p |-> 0, v |-> v]

\* ------------------------------------------------------------------ strings
\* a string is a sequence of characters 1, 2; Undefined stands for a missing
\* value (process.env.VERSION may be unset)
Undefined == <<0>>

\* val ? val : ""
Truthy(val) == val # Undefined /\ val # <<>>
OrEmpty(val) == IF Truthy(val) THEN val ELSE <<>>

RECURSIVE AppendAll(_)
\* SparkMD5.append applied left to right: the digest sees one concatenated text
AppendAll(valueList) ==
    IF valueList = <<>> THEN <<>>
    ELSE OrEmpty(Head(valueList)) \o AppendAll(Tail(valueList))

\* the digest (md5, first 8 hex digits) taken as collision-free on its input
Digest(text) == <<"md5", text>>

hash(valueList) == Digest(AppendAll(valueList))

\* JSON.stringify / JSON.parse on compilation artifacts (arrays of strings)
JSONstringify(value) == <<"json", value>>
JSONparse(valueStr) == valueStr[2]

\* cacheInstance.get: the stored string, or Undefined
CacheGet(cache, hashedKey) ==
    IF hashedKey \in DOMAIN cache THEN cache[hashedKey] ELSE Undefined
CacheSet(cache, hashedKey, valueStr) ==
    [h \in DOMAIN cache \cup {hashedKey} |->
        IF h = hashedKey THEN valueStr ELSE cache[h]]

EmptyCache == [h \in {} |-> Undefined]

\* ------------------------------------------------------------------ state
VARIABLES
    cfg,            \* options: dependency graph, loadModule / handleModule / compiledCache presence
    moduleCache,    \* options.moduleCache: id -> Absent | Loading(p) | Value(v)
    loads,          \* the async bodies started at line 260, one per Loading created
    calls,          \* the loadModuleInternal invocations
    cnt,            \* per id: how often each external collaborator / the code was run
    compiledCache,  \* options.compiledCache: hashedKey -> stored string
    lastReq,        \* the last require() made by module code after its execution
    late,           \* number of late require / import__ uses so far
    wc              \* withCache invocations made directly (not through a load)

vars == <<cfg, moduleCache, loads, calls, cnt, compiledCache, lastReq, late, wc>>

\* ------------------------------------------------------------------ collaborators
\* options.getResource: a relative reference is an offset from the referring id
GetResourceId(refPath, relPath) == ((refPath - 1 + relPath) % NIds) + 1

RootPath == 1
version == <<1>>
Source(id) == [i \in 1..id |-> 1]
Path(id) == <<2>> \o [i \in 1..id |-> 1]

\* dependency graphs (what parseDeps finds in each module's source)
NoDeps == [i \in Ids |-> <<>>]
G_fan == [NoDeps EXCEPT ![1] = <<1, 2>>]
G_one == [NoDeps EXCEPT ![1] = <<1>>]
G_self == [NoDeps EXCEPT ![1] = <<NIds, 1>>]
G_chain == [NoDeps EXCEPT ![1] = <<1>>, ![2] = <<1>>]
G_cycle == [NoDeps EXCEPT ![1] = <<1>>, ![2] = <<NIds - 1>>]
\* 1 imports 2 and 3, which both import 4
G_diamond == [NoDeps EXCEPT ![1] = <<1, 2>>, ![2] = <<2>>, ![3] = <<1>>]
Graphs == {NoDeps, G_fan, G_self, G_chain, G_cycle}

Configs ==
    {[graph |-> g, hasHook |-> FALSE, hasHandle |-> FALSE, cache |-> "none"] :
        g \in Graphs}
    \cup {[graph |-> G_one, hasHook |-> FALSE, hasHandle |-> FALSE, cache |-> c] :
        c \in {"cold", "warm"}}
    \cup {[graph |-> G_one, hasHook |-> h, hasHandle |-> m, cache |-> "none"] :
        h \in BOOLEAN, m \in BOOLEAN}

\* parseDeps on a source text
DepsIn(source) ==
    IF \E i \in Ids : Source(i) = source
    THEN cfg.graph[CHOOSE i \in Ids : Source(i) = source]
    ELSE <<>>

\* transformJSCode's result [depsList, transformedScript.code]
transformJSCode(source, filename) == <<DepsIn(source), source>>

KeyOf(id) == <<version, Source(id), Path(id)>>
WarmIds == {1}
WarmCache ==
    [h \in {hash(KeyOf(i)) : i \in WarmIds} |->
        JSONstringify(transformJSCode(
            Source(CHOOSE i \in WarmIds : hash(KeyOf(i)) = h),
            Path(CHOOSE i \in WarmIds : hash(KeyOf(i)) = h)))]

CacheOn == cfg.cache # "none"

\* ------------------------------------------------------------------ records
NewLoad(id, pc) ==
    [id |-> id, pc |-> pc, out |-> NoVal, art |-> <<>>, deps |-> <<>>,
     depCalls |-> <<>>, ld |-> "none", reqs |-> <<>>, exports |-> NoVal]
NewCall(id, from, kind, rel, waits, imm, saw) ==
    [id |-> id, from |-> from, kind |-> kind, rel |-> rel, waits |-> waits, imm |-> imm,
     saw |-> saw]
NoLookup == [by |-> 0, rel |-> 0, id |-> 0, seen |-> Absent, ok |-> FALSE, ret |-> Absent]
ZeroCnt == [hook |-> 0, fetch |-> 0, handle |-> 0, sfc |-> 0, transform |-> 0, exec |-> 0]

Bump(c, id, f) == [c EXCEPT ![id][f] = @ + 1]

\* what a call's promise holds: NoVal while pending
CallOut_LostWakeup(ls, c) ==
    IF c.waits = 0 THEN c.imm
    ELSE IF c.saw = "pending" THEN NoVal ELSE ls[c.waits].out
CallOut(ls, c) == IF c.waits = 0 THEN c.imm ELSE ls[c.waits].out

\* ------------------------------------------------------------------ loadModuleInternal
\* `id in moduleCache`
InCache_OnlyLoading(mc, id) == mc[id].k = "loading"
InCache_Truthy(mc, id) == mc[id].k # "absent" /\ mc[id].v.t # "null"
InCache(mc, id) == mc[id].k # "absent"

\* lines 260-269 up to the first await: the hook or the fetch is invoked
StartBody_FetchFirst(S, id) ==
    IF cfg.hasHook
    THEN [S EXCEPT !.loads = Append(@, NewLoad(id, "hook")),
                   !.cnt = Bump(Bump(@, id, "fetch"), id, "hook")]
    ELSE [S EXCEPT !.loads = Append(@, NewLoad(id, "fetch")),
                   !.cnt = Bump(@, id, "fetch")]
StartBody(S, id) ==
    IF cfg.hasHook
    THEN [S EXCEPT !.loads = Append(@, NewLoad(id, "hook")),
                   !.cnt = Bump(@, id, "hook")]
    ELSE [S EXCEPT !.loads = Append(@, NewLoad(id, "fetch")),
                   !.cnt = Bump(@, id, "fetch")]

\* what the entry of id is at the moment of a call (kept for the record only)
Saw(S, id) ==
    CASE S.mc[id].k = "absent" -> "absent"
      [] S.mc[id].k = "value" -> "value"
      [] OTHER -> IF S.loads[S.mc[id].p].pc = "failed" THEN "failed" ELSE "pending"

\* lines 245-290 up to the first await, on the state S = [mc, loads, calls, cnt]
LoadSync_NoCheck(S, from, kind, refPath, relPath) ==
    LET id == GetResourceId(refPath, relPath)
        p == Len(S.loads) + 1
        T == StartBody(S, id)
    IN [T EXCEPT !.mc[id] = Loading(p),
                 !.calls = Append(@, NewCall(id, from, kind, relPath, p, NoVal,
                                             Saw(S, id)))]

\* a loader that hands out a placeholder for a pending identity
LoadSync_NoWait(S, from, kind, refPath, relPath) ==
    LET id == GetResourceId(refPath, relPath) IN
    IF relPath # BadRel /\ S.mc[id].k = "loading"
    THEN [S EXCEPT !.calls =
             Append(@, NewCall(id, from, kind, relPath, 0, V("exports", id, 0),
                               Saw(S, id)))]
    ELSE IF relPath # BadRel /\ S.mc[id].k = "absent"
    THEN LoadSync_NoCheck(S, from, kind, refPath, relPath)
    ELSE [S EXCEPT !.calls =
             Append(@, IF relPath = BadRel
                       THEN NewCall(0, from, kind, relPath, 0, V("E_resolve", 0, 0), "none")
                       ELSE NewCall(id, from, kind, relPath, 0, S.mc[id].v, Saw(S, id)))]
LoadSync(S, from, kind, refPath, relPath) ==
    LET id == GetResourceId(refPath, relPath) IN
    IF relPath = BadRel
    THEN [S EXCEPT !.calls =
             Append(@, NewCall(0, from, kind, relPath, 0, V("E_resolve", 0, 0), "none"))]
    ELSE
    IF InCache(S.mc, id)
    THEN IF S.mc[id].k = "loading"
         THEN [S EXCEPT !.calls =
                  Append(@, NewCall(id, from, kind, relPath, S.mc[id].p, NoVal,
                                    Saw(S, id)))]
         ELSE [S EXCEPT !.calls =
                  Append(@, NewCall(id, from, kind, relPath, 0, S.mc[id].v,
                                    Saw(S, id)))]
    ELSE LET p == Len(S.loads) + 1
             T == StartBody(S, id)
         IN [T EXCEPT !.mc[id] = Loading(p),
                      !.calls = Append(@, NewCall(id, from, kind, relPath, p, NoVal,
                                                  Saw(S, id)))]

\* a loader that starts only the first dependency
loadDepsSync_FirstOnly(S, p, refPath, deps) ==
    IF deps = <<>> THEN S ELSE LoadSync(S, p, "dep", refPath, Head(deps))
RECURSIVE loadDepsSync(_, _, _, _)
\* deps.map(relPath => loadModuleInternal({ refPath, relPath }, options))
loadDepsSync(S, p, refPath, deps) ==
    IF deps = <<>> THEN S
    ELSE loadDepsSync(LoadSync(S, p, "dep", refPath, Head(deps)), p, refPath, Tail(deps))

Here == [mc |-> moduleCache, loads |-> loads, calls |-> calls, cnt |-> cnt]
Commit(S) ==
    /\ moduleCache' = S.mc
    /\ loads' = S.loads
    /\ calls' = S.calls
    /\ cnt' = S.cnt

\* the promise of load p rejects with err (the entry stays the Loading object)
Reject_Evict(S, p, err) ==
    [S EXCEPT !.loads[p].pc = "failed", !.loads[p].out = err,
              !.mc[S.loads[p].id] = Absent]
Reject(S, p, err) == [S EXCEPT !.loads[p].pc = "failed", !.loads[p].out = err]

\* `return moduleCache[id] = module` (lines 266, 286)
Resolve_NoStore(S, p, module) ==
    [S EXCEPT !.loads[p].pc = "done", !.loads[p].out = module]
Resolve(S, p, module) ==
    [S EXCEPT !.mc[S.loads[p].id] = Value(module),
              !.loads[p].pc = "done", !.loads[p].out = module]

\* line 342: loadDeps(filename, depsList, options), up to its await
EnterDeps_Skip(S, p, art) ==
    [S EXCEPT !.loads[p].pc = "deps",
              !.loads[p].ld = "wait",
              !.loads[p].art = art,
              !.loads[p].deps = art[1]]
EnterDeps(S, p, art) ==
    LET n == Len(S.calls)
        T == [S EXCEPT !.loads[p].pc = "deps",
                       !.loads[p].ld = "wait",
                       !.loads[p].art = art,
                       !.loads[p].deps = art[1],
                       !.loads[p].depCalls = [i \in 1..Len(art[1]) |-> n + i]]
    IN loadDepsSync(T, p, S.loads[p].id, art[1])

\* lines 337-340: withCache up to its first await, inside createJSModule
createJSModuleSync(S, p) ==
    IF CacheOn
    THEN [S EXCEPT !.loads[p].pc = "cacheGet"]
    ELSE [S EXCEPT !.loads[p].pc = "transform",
                   !.cnt = Bump(@, S.loads[p].id, "transform")]

\* the type tags getContent may report; an error message names one by its place
ExtSeq == <<".vue", ".js", ".mjs", ".txt">>
TagNo(extname) == CHOOSE i \in DOMAIN ExtSeq : ExtSeq[i] = extname

\* lines 360-369, then lines 283-284
defaultHandleModule_NoMjs(S, p, extname) ==
    CASE extname = ".vue" ->
            [S EXCEPT !.loads[p].pc = "sfc", !.cnt = Bump(@, S.loads[p].id, "sfc")]
      [] extname = ".js" -> createJSModuleSync(S, p)
      [] OTHER -> Reject(S, p, V("E_unsupported", S.loads[p].id, TagNo(extname)))
defaultHandleModule(S, p, extname) ==
    CASE extname = ".vue" ->
            [S EXCEPT !.loads[p].pc = "sfc", !.cnt = Bump(@, S.loads[p].id, "sfc")]
      [] extname \in {".js", ".mjs"} -> createJSModuleSync(S, p)
      [] OTHER -> Reject(S, p, V("E_unsupported", S.loads[p].id, TagNo(extname)))

Extnames == {ExtSeq[i] : i \in DOMAIN ExtSeq}

\* ------------------------------------------------------------------ actions
UserCalls == {c \in DOMAIN calls : calls[c].from = 0}

\* a caller outside the loader: loadModuleInternal({ refPath, relPath }, options)
UserLoad(rel) ==
    /\ Cardinality(UserCalls) < MaxUserCalls
    /\ Commit(LoadSync(Here, 0, "user", RootPath, rel))
    /\ UNCHANGED <<cfg, compiledCache, lastReq, late, wc>>

\* lines 264-269: options.loadModule settles
HookReturn(p, r) ==
    /\ loads[p].pc = "hook"
    /\ Commit(CASE r = "value" -> Resolve(Here, p, V("hook", loads[p].id, 0))
                [] r = "throw" -> Reject(Here, p, V("E_hook", loads[p].id, 0))
                [] OTHER -> [Here EXCEPT !.loads[p].pc = "fetch",
                                         !.cnt = Bump(@, loads[p].id, "fetch")])
    /\ UNCHANGED <<cfg, compiledCache, lastReq, late, wc>>

\* lines 269-284: getContent settles
FetchReturn_NoTypeCheck(p, r) ==
    /\ loads[p].pc = "fetch"
    /\ Commit(CASE r = "reject" -> Reject(Here, p, V("E_fetch", loads[p].id, 0))
                [] r = "nonstring" -> defaultHandleModule(Here, p, ".js")
                [] OTHER ->
                    IF cfg.hasHandle
                    THEN [Here EXCEPT !.loads[p].pc = r,
                                      !.cnt = Bump(@, loads[p].id, "handle")]
                    ELSE defaultHandleModule(Here, p, r))
    /\ UNCHANGED <<cfg, compiledCache, lastReq, late, wc>>
FetchReturn(p, r) ==
    /\ loads[p].pc = "fetch"
    /\ Commit(CASE r = "reject" -> Reject(Here, p, V("E_fetch", loads[p].id, 0))
                [] r = "nonstring" -> Reject(Here, p, V("E_content", loads[p].id, 0))
                [] OTHER ->
                    IF cfg.hasHandle
                    THEN [Here EXCEPT !.loads[p].pc = r,
                                      !.cnt = Bump(@, loads[p].id, "handle")]
                    ELSE defaultHandleModule(Here, p, r))
    /\ UNCHANGED <<cfg, compiledCache, lastReq, late, wc>>

\* lines 278-286: options.handleModule settles; pc holds extname meanwhile
HandleReturn(p, r) ==
    /\ loads[p].pc \in Extnames
    /\ Commit(CASE r = "value" -> Resolve(Here, p, V("handled", loads[p].id, 0))
                [] r = "null" -> Resolve(Here, p, V("null", 0, 0))
                [] r = "throw" -> Reject(Here, p, V("E_handle", loads[p].id, 0))
                [] OTHER -> defaultHandleModule(Here, p, loads[p].pc))
    /\ UNCHANGED <<cfg, compiledCache, lastReq, late, wc>>

\* line 363, then 283-286: createSFCModule settles
SfcReturn(p, ok) ==
    /\ loads[p].pc = "sfc"
    /\ Commit(IF ok THEN Resolve(Here, p, V("sfc", loads[p].id, 0))
                    ELSE Reject(Here, p, V("E_sfc", loads[p].id, 0)))
    /\ UNCHANGED <<cfg, compiledCache, lastReq, late, wc>>

\* lines 118-122 inside createJSModule: cacheInstance.get settles
CacheGetReturn(p) ==
    /\ loads[p].pc = "cacheGet"
    /\ LET valueStr == CacheGet(compiledCache, hash(KeyOf(loads[p].id))) IN
       Commit(IF Truthy(valueStr)
              THEN EnterDeps(Here, p, JSONparse(valueStr))
              ELSE [Here EXCEPT !.loads[p].pc = "transform",
                                !.cnt = Bump(@, loads[p].id, "transform")])
    /\ UNCHANGED <<cfg, compiledCache, lastReq, late, wc>>

\* lines 122-125 (or 115) inside createJSModule: transformJSCode settles
TransformReturn(p, ok) ==
    /\ loads[p].pc = "transform"
    /\ LET art == transformJSCode(Source(loads[p].id), Path(loads[p].id)) IN
       Commit(IF ~ok THEN Reject(Here, p, V("E_transform", loads[p].id, 0))
              ELSE IF CacheOn
                   THEN [Here EXCEPT !.loads[p].pc = "cacheSet", !.loads[p].art = art]
                   ELSE EnterDeps(Here, p, art))
    /\ UNCHANGED <<cfg, compiledCache, lastReq, late, wc>>

\* lines 125-127 inside createJSModule: cacheInstance.set settles
CacheSetReturn(p) ==
    /\ loads[p].pc = "cacheSet"
    /\ compiledCache' = CacheSet(compiledCache, hash(KeyOf(loads[p].id)),
                                 JSONstringify(loads[p].art))
    /\ Commit(EnterDeps(Here, p, loads[p].art))
    /\ UNCHANGED <<cfg, lastReq, late, wc>>

\* ------------------------------------------------------------------ createModule
\* lines 304-311: the `require` binding
require_Copy(mc, by, refPath, relPath) ==
    LET id == GetResourceId(refPath, relPath) IN
    [by |-> by, rel |-> relPath, id |-> id, seen |-> mc[id],
     ok |-> InCache(mc, id),
     ret |-> IF InCache(mc, id) THEN [mc[id] EXCEPT !.v.n = @ + by] ELSE Absent]
require(mc, by, refPath, relPath) ==
    LET id == GetResourceId(refPath, relPath) IN
    [by |-> by, rel |-> relPath, id |-> id, seen |-> mc[id],
     ok |-> InCache(mc, id),
     ret |-> IF InCache(mc, id) THEN mc[id] ELSE Absent]

NoRel == NIds + 1

\* Promise.all (line 353) over the calls loadDeps made
DepOuts(p) == [i \in DOMAIN loads[p].depCalls |-> CallOut(loads, calls[loads[p].depCalls[i]])]
DepsAllOk_Lax(p) == \A i \in DOMAIN DepOuts(p) : ~IsErr(DepOuts(p)[i])
DepsAllOk(p) == \A i \in DOMAIN DepOuts(p) : IsVal(DepOuts(p)[i])
DepsAnyErr(p) == \E i \in DOMAIN DepOuts(p) : IsErr(DepOuts(p)[i])

\* lines 342-343 after loadDeps succeeded: createModule runs the code (line 324).
\* The code requires its static dependencies, optionally one computed
\* reference dyn, and may throw; mode "catch" catches a failing require.
Exec(p, dyn, mode) ==
    /\ loads[p].pc = "deps"
    /\ DepsAllOk(p)
    /\ dyn # NoRel => late < MaxLate
    /\ LET id == loads[p].id
           reqs == [i \in DOMAIN loads[p].deps |->
                       require(moduleCache, p, id, loads[p].deps[i])]
           dreq == require(moduleCache, p, id, dyn)
           bad == {i \in DOMAIN reqs : ~reqs[i].ok}
           first == CHOOSE i \in bad : \A j \in bad : i <= j
           n == cnt[id].exec + 1
       IN /\ cnt' = Bump(cnt, id, "exec")
          /\ lastReq' = IF dyn # NoRel /\ bad = {} THEN dreq ELSE lastReq
          /\ late' = IF dyn # NoRel THEN late + 1 ELSE late
          /\ loads' =
               IF bad # {}
               THEN [loads EXCEPT ![p].pc = "failed", ![p].ld = "ok",
                                  ![p].reqs = SubSeq(reqs, 1, first),
                                  ![p].out = V("E_notfound", reqs[first].id, 0)]
               ELSE IF dyn # NoRel /\ ~dreq.ok /\ mode = "run"
               THEN [loads EXCEPT ![p].pc = "failed", ![p].ld = "ok", ![p].reqs = reqs,
                                  ![p].out = V("E_notfound", dreq.id, 0)]
               ELSE IF mode = "throw"
               THEN [loads EXCEPT ![p].pc = "failed", ![p].ld = "ok", ![p].reqs = reqs,
                                  ![p].out = V("E_exec", id, 0)]
               ELSE [loads EXCEPT ![p].pc = "executed", ![p].ld = "ok", ![p].reqs = reqs,
                                  ![p].exports = V("exports", id, n)]
    /\ UNCHANGED <<cfg, moduleCache, calls, compiledCache, wc>>

\* Promise.all rejects: loadDeps, createJSModule and the body reject in turn
DepsFail_Rollback(p, i) ==
    /\ loads[p].pc = "deps"
    /\ DepsAnyErr(p)
    /\ i \in DOMAIN DepOuts(p)
    /\ IsErr(DepOuts(p)[i])
    /\ loads' = [loads EXCEPT ![p].pc = "failed", ![p].ld = "fail",
                              ![p].out = DepOuts(p)[i]]
    /\ moduleCache' = [d \in Ids |->
          IF \E j \in DOMAIN loads[p].depCalls : calls[loads[p].depCalls[j]].id = d
          THEN Absent ELSE moduleCache[d]]
    /\ UNCHANGED <<cfg, calls, cnt, compiledCache, lastReq, late, wc>>
DepsFail(p, i) ==
    /\ loads[p].pc = "deps"
    /\ DepsAnyErr(p)
    /\ i \in DOMAIN DepOuts(p)
    /\ IsErr(DepOuts(p)[i])
    /\ loads' = [loads EXCEPT ![p].pc = "failed", ![p].ld = "fail",
                              ![p].out = DepOuts(p)[i]]
    /\ UNCHANGED <<cfg, moduleCache, calls, cnt, compiledCache, lastReq, late, wc>>

\* line 286 on the script path: the exports become the cache entry
ResolveExports(p) ==
    /\ loads[p].pc = "executed"
    /\ Commit(Resolve(Here, p, loads[p].exports))
    /\ UNCHANGED <<cfg, compiledCache, lastReq, late, wc>>

\* module code that has run keeps its bindings: a callback may call require
RequireLater_Install(p, rel) ==
    /\ loads[p].pc \in {"executed", "done"}
    /\ loads[p].exports # NoVal
    /\ late < MaxLate
    /\ lastReq' = require(moduleCache, p, loads[p].id, rel)
    /\ late' = late + 1
    /\ moduleCache' =
          [moduleCache EXCEPT ![GetResourceId(loads[p].id, rel)] =
              IF @.k = "absent" THEN Value(NoVal) ELSE @]
    /\ UNCHANGED <<cfg, loads, calls, cnt, compiledCache, wc>>
RequireLater(p, rel) ==
    /\ loads[p].pc \in {"executed", "done"}
    /\ loads[p].exports # NoVal
    /\ late < MaxLate
    /\ lastReq' = require(moduleCache, p, loads[p].id, rel)
    /\ late' = late + 1
    /\ UNCHANGED <<cfg, moduleCache, loads, calls, cnt, compiledCache, wc>>

\* lines 313-316: ... or import__
ImportLater(p, rel) ==
    /\ loads[p].pc \in {"executed", "done"}
    /\ loads[p].exports # NoVal
    /\ late < MaxLate
    /\ Commit(LoadSync(Here, p, "imp", loads[p].id, rel))
    /\ late' = late + 1
    /\ UNCHANGED <<cfg, compiledCache, lastReq, wc>>

\* ------------------------------------------------------------------ specification
Init ==
    /\ cfg \in Configs
    /\ moduleCache = [i \in Ids |-> Absent]
    /\ loads = <<>>
    /\ calls = <<>>
    /\ cnt = [i \in Ids |-> ZeroCnt]
    /\ compiledCache = IF cfg.cache = "warm" THEN WarmCache ELSE EmptyCache
    /\ lastReq = NoLookup
    /\ late = 0
    /\ wc = <<>>

Next ==
    \/ \E rel \in UserRels : UserLoad(rel)
    \/ \E p \in DOMAIN loads : \E r \in {"value", "throw", "undefined"} : HookReturn(p, r)
    \/ \E p \in DOMAIN loads : \E r \in {"reject", "nonstring"} \cup Extnames : FetchReturn(p, r)
    \/ \E p \in DOMAIN loads : \E r \in {"value", "null", "throw", "undefined"} : HandleReturn(p, r)
    \/ \E p \in DOMAIN loads : \E ok \in BOOLEAN : SfcReturn(p, ok)
    \/ \E p \in DOMAIN loads : CacheGetReturn(p)
    \/ \E p \in DOMAIN loads : \E ok \in BOOLEAN : TransformReturn(p, ok)
    \/ \E p \in DOMAIN loads : CacheSetReturn(p)
    \/ \E p \in DOMAIN loads : \E dyn \in Rels \cup {NoRel} :
          \E mode \in {"run", "catch", "throw"} : Exec(p, dyn, mode)
    \/ \E p \in DOMAIN loads : \E i \in 1..NIds : DepsFail(p, i)
    \/ \E p \in DOMAIN loads : ResolveExports(p)
    \/ \E p \in DOMAIN loads : \E rel \in Rels : RequireLater(p, rel)
    \/ \E p \in DOMAIN loads : \E rel \in Rels : ImportLater(p, rel)

Spec == Init /\ [][Next]_vars

\* the script path alone on the diamond graph: no hook, no handler, no cache
InitDiamond ==
    /\ cfg = [graph |-> G_diamond, hasHook |-> FALSE, hasHandle |-> FALSE, cache |-> "none"]
    /\ moduleCache = [i \in Ids |-> Absent]
    /\ loads = <<>>
    /\ calls = <<>>
    /\ cnt = [i \in Ids |-> ZeroCnt]
    /\ compiledCache = EmptyCache
    /\ lastReq = NoLookup
    /\ late = 0
    /\ wc = <<>>

NextScript ==
    \/ \E rel \in UserRels : UserLoad(rel)
    \/ \E p \in DOMAIN loads : \E r \in {"reject", "nonstring"} \cup Extnames : FetchReturn(p, r)
    \/ \E p \in DOMAIN loads : \E ok \in BOOLEAN : SfcReturn(p, ok)
    \/ \E p \in DOMAIN loads : \E ok \in BOOLEAN : TransformReturn(p, ok)
    \/ \E p \in DOMAIN loads : \E dyn \in Rels \cup {NoRel} :
          \E mode \in {"run", "catch", "throw"} : Exec(p, dyn, mode)
    \/ \E p \in DOMAIN loads : \E i \in 1..NIds : DepsFail(p, i)
    \/ \E p \in DOMAIN loads : ResolveExports(p)
    \/ \E p \in DOMAIN loads : \E rel \in Rels : RequireLater(p, rel)
    \/ \E p \in DOMAIN loads : \E rel \in Rels : ImportLater(p, rel)

SpecDiamond == InitDiamond /\ [][NextScript]_vars

\* Acyclic graphs with every collaborator returning: a pending continuation
\* of a load body is run by the event loop once what it awaits has settled.
LiveConfigs ==
    {[graph |-> g, hasHook |-> FALSE, hasHandle |-> FALSE, cache |-> "none"] :
        g \in {G_chain, G_diamond}}
    \cup {[graph |-> G_one, hasHook |-> TRUE, hasHandle |-> TRUE, cache |-> "none"],
          [graph |-> G_one, hasHook |-> FALSE, hasHandle |-> FALSE, cache |-> "cold"]}
InitLive ==
    /\ cfg \in LiveConfigs
    /\ moduleCache = [i \in Ids |-> Absent]
    /\ loads = <<>>
    /\ calls = <<>>
    /\ cnt = [i \in Ids |-> ZeroCnt]
    /\ compiledCache = IF cfg.cache = "warm" THEN WarmCache ELSE EmptyCache
    /\ lastReq = NoLookup
    /\ late = 0
    /\ wc = <<>>

\* the steps of load bodies
Settle ==
    \/ \E p \in DOMAIN loads : \E r \in {"value", "throw", "undefined"} : HookReturn(p, r)
    \/ \E p \in DOMAIN loads : \E r \in {"reject", "nonstring"} \cup Extnames : FetchReturn(p, r)
    \/ \E p \in DOMAIN loads : \E r \in {"value", "null", "throw", "undefined"} : HandleReturn(p, r)
    \/ \E p \in DOMAIN loads : \E ok \in BOOLEAN : SfcReturn(p, ok)
    \/ \E p \in DOMAIN loads : CacheGetReturn(p)
    \/ \E p \in DOMAIN loads : \E ok \in BOOLEAN : TransformReturn(p, ok)
    \/ \E p \in DOMAIN loads : CacheSetReturn(p)
    \/ \E p \in DOMAIN loads : \E dyn \in Rels \cup {NoRel} :
          \E mode \in {"run", "catch", "throw"} : Exec(p, dyn, mode)
    \/ \E p \in DOMAIN loads : \E i \in 1..NIds : DepsFail(p, i)
    \/ \E p \in DOMAIN loads : ResolveExports(p)

NextLive ==
    \/ \E rel \in {0, 1} : UserLoad(rel)
    \/ Settle
    \/ \E p \in DOMAIN loads : \E rel \in Rels : ImportLater(p, rel)

SpecLive == InitLive /\ [][NextLive]_vars /\ WF_vars(Settle)

\* ------------------------------------------------------------------ withCache
\* withCache called directly; its producer is the transform of (source, filename)
\* and may call api.preventCache().
K_ab_c == <<version, <<1, 2>>, <<1>>>>
K_a_bc == <<version, <<1>>, <<2, 1>>>>
K_b_c == <<version, <<2>>, <<2>>>>
K_noversion == <<Undefined, <<1, 2>>, <<1>>>>
KeyLists == {K_ab_c, K_a_bc, K_b_c, K_noversion}

NewWc(key, pc, hashedKey, made) ==
    [key |-> key, pc |-> pc, hashedKey |-> hashedKey, cachePrevented |-> FALSE,
     made |-> made, value |-> <<>>,
     after |-> {c \in DOMAIN wc : wc[c].pc = "done"}]

\* line 124: `if ( !cachePrevented )`
ShouldStore_Always(cachePrevented) == TRUE
ShouldStore(cachePrevented) == ~cachePrevented

\* lines 108-118: up to the first await
withCacheStart(key) ==
    /\ Len(wc) < MaxWc
    /\ wc' = Append(wc, IF ~CacheOn THEN NewWc(key, "factory", Undefined, 1)
                        ELSE NewWc(key, "get", hash(key), 0))
    /\ UNCHANGED <<cfg, moduleCache, loads, calls, cnt, compiledCache, lastReq, late>>

\* lines 118-122: cacheInstance.get settles
withCacheGot(c) ==
    /\ wc[c].pc = "get"
    /\ LET valueStr == CacheGet(compiledCache, wc[c].hashedKey) IN
       wc' = IF Truthy(valueStr)
             THEN [wc EXCEPT ![c].pc = "done", ![c].value = JSONparse(valueStr)]
             ELSE [wc EXCEPT ![c].pc = "factory", ![c].made = 1]
    /\ UNCHANGED <<cfg, moduleCache, loads, calls, cnt, compiledCache, lastReq, late>>

\* lines 115, 122-125: valueFactory settles
withCacheMade(c, r) ==
    /\ wc[c].pc = "factory"
    /\ LET value == transformJSCode(wc[c].key[2], wc[c].key[3]) IN
       wc' = CASE r = "throw" -> [wc EXCEPT ![c].pc = "failed"]
               [] ~CacheOn -> [wc EXCEPT ![c].pc = "done", ![c].value = value,
                                         ![c].cachePrevented = (r = "prevent")]
               [] ShouldStore(r = "prevent") ->
                      [wc EXCEPT ![c].pc = "set", ![c].value = value,
                                 ![c].cachePrevented = (r = "prevent")]
               [] OTHER -> [wc EXCEPT ![c].pc = "done", ![c].value = value,
                                      ![c].cachePrevented = (r = "prevent")]
    /\ UNCHANGED <<cfg, moduleCache, loads, calls, cnt, compiledCache, lastReq, late>>

\* lines 125-127: cacheInstance.set settles
withCacheStored(c) ==
    /\ wc[c].pc = "set"
    /\ compiledCache' = CacheSet(compiledCache, wc[c].hashedKey, JSONstringify(wc[c].value))
    /\ wc' = [wc EXCEPT ![c].pc = "done"]
    /\ UNCHANGED <<cfg, moduleCache, loads, calls, cnt, lastReq, late>>

InitCache ==
    /\ cfg \in {[graph |-> NoDeps, hasHook |-> FALSE, hasHandle |-> FALSE, cache |-> c] :
                   c \in {"none", "cold"}}
    /\ moduleCache = [i \in Ids |-> Absent]
    /\ loads = <<>>
    /\ calls = <<>>
    /\ cnt = [i \in Ids |-> ZeroCnt]
    /\ compiledCache = EmptyCache
    /\ lastReq = NoLookup
    /\ late = 0
    /\ wc = <<>>

NextCache ==
    \/ \E key \in KeyLists : withCacheStart(key)
    \/ \E c \in DOMAIN wc : withCacheGot(c)
    \/ \E c \in DOMAIN wc : \E r \in {"ok", "prevent", "throw"} : withCacheMade(c, r)
    \/ \E c \in DOMAIN wc : withCacheStored(c)

SpecCache == InitCache /\ [][NextCache]_vars

\* ================================================================== claims
Hashed == {c \in DOMAIN wc : CacheOn}
WcDone == {c \in DOMAIN wc : wc[c].pc = "done"}

\* C6: hash maps equal key lists to equal keys and key lists that differ in
\* the version, the source text or the path to different keys.
C6_KeySensitive ==
    \A c1 \in Hashed : \A c2 \in Hashed :
        (wc[c1].key = wc[c2].key) <=> (wc[c1].hashedKey = wc[c2].hashedKey)

\* the calls that completed a miss and stored their result
Stored == {c \in WcDone : CacheOn /\ wc[c].made = 1 /\ ~wc[c].cachePrevented}

\* C7: once a withCache call with key parts K has completed a miss and stored
\* its result, every call with the same K started later completes without
\* invoking its producer and returns the first call's producer result.
C7_HitReturnsFirstResult ==
    \A c1 \in Stored : \A c2 \in WcDone :
        (wc[c2].key = wc[c1].key /\ c1 \in wc[c2].after) =>
            (wc[c2].made = 0 /\ wc[c2].value = wc[c1].value)

\* the calls that wrote the store under hashed key h
Writers(h) == {c \in Stored : wc[c].hashedKey = h}

\* C8: a call whose producer called preventCache returns the producer's
\* result and stores nothing: every stored key was written by a call that did
\* not prevent caching, and a call completes without its producer only on a
\* key such a call wrote; otherwise the producer runs again.
C8_PreventCacheNotStored ==
    /\ \A h \in DOMAIN compiledCache : Writers(h) # {}
    /\ \A c \in WcDone :
          /\ (CacheOn /\ wc[c].made = 0) => Writers(wc[c].hashedKey) # {}
          /\ wc[c].cachePrevented =>
                /\ wc[c].made = 1
                /\ wc[c].value = transformJSCode(wc[c].key[2], wc[c].key[3])

\* a second call with the key parts of a finished, preventing call ran its
\* producer again; the store holds nothing under that key
C8_Witness ==
    \E c1 \in WcDone : \E c2 \in WcDone :
        /\ CacheOn
        /\ wc[c1].cachePrevented
        /\ c1 \in wc[c2].after
        /\ wc[c2].key = wc[c1].key
        /\ wc[c2].made = 1
        /\ wc[c2].hashedKey \notin DOMAIN compiledCache

\* ------------------------------------------------------------------ loader claims
LoadsOf(ls, id) == {p \in DOMAIN ls : ls[p].id = id}
CallsOf(id) == {c \in DOMAIN calls : calls[c].id = id}
Result(c) == CallOut(loads, calls[c])
Failed(ls, mc, id) == mc[id].k = "loading" /\ ls[mc[id].p].pc = "failed"
AtMostOnce(id) ==
    /\ cnt[id].hook <= 1
    /\ cnt[id].fetch <= 1
    /\ cnt[id].handle <= 1
    /\ cnt[id].sfc <= 1
    /\ cnt[id].transform <= 1
    /\ cnt[id].exec <= 1

\* C1: however the calls for one identity interleave, one Loading entry is
\* installed for it and its load body is started once; the hook, the fetch,
\* the handlers, the transform and the execution each run at most once, and
\* all settled calls hold the same value or the same error.
C1_SingleFlight ==
    \A id \in Ids :
        /\ Cardinality(LoadsOf(loads, id)) <= 1
        /\ CallsOf(id) # {} =>
              /\ Cardinality(LoadsOf(loads, id)) = 1
              /\ cnt[id].hook + cnt[id].fetch >= 1
        /\ AtMostOnce(id)
        /\ \A c1 \in CallsOf(id) : \A c2 \in CallsOf(id) :
              (Result(c1) # NoVal /\ Result(c2) # NoVal) => Result(c1) = Result(c2)

\* three calls for one identity: the one that installed the entry, one that
\* joined while it was pending, one made after it resolved; all hold one value
C1_Witness ==
    \E id \in Ids : \E c1 \in CallsOf(id) : \E c2 \in CallsOf(id) : \E c3 \in CallsOf(id) :
        /\ calls[c1].saw = "absent"
        /\ calls[c2].saw = "pending"
        /\ calls[c3].saw = "value"
        /\ IsVal(Result(c1))
        /\ Result(c2) = Result(c1)
        /\ Result(c3) = Result(c1)
        /\ cnt[id].fetch = 1

\* C2: once the load body of an identity has failed, the entry, the retained
\* error and every counter of that identity stay as they are, and every call
\* for that identity, also one made after the failure, holds the retained error.
C2_FailureMemoized ==
    /\ [](\A id \in Ids : Failed(loads, moduleCache, id) =>
            /\ cnt[id].fetch <= 1
            /\ (~cfg.hasHook => cnt[id].fetch = 1)
            /\ \A c \in CallsOf(id) : Result(c) = loads[moduleCache[id].p].out)
    /\ [][\A id \in Ids : Failed(loads, moduleCache, id) =>
            /\ moduleCache'[id] = moduleCache[id]
            /\ loads'[moduleCache[id].p] = loads[moduleCache[id].p]
            /\ LoadsOf(loads', id) = LoadsOf(loads, id)
            /\ cnt'[id] = cnt[id]]_vars

\* a call made after the failure holds the error, and the fetch ran once
C2_Witness ==
    \E id \in Ids : \E c \in CallsOf(id) :
        /\ Failed(loads, moduleCache, id)
        /\ calls[c].saw = "failed"
        /\ IsErr(Result(c))
        /\ cnt[id].fetch = 1

\* C3: the synchronous lookup returns the exported value when the identity has
\* a Resolved entry and fails with "not found" when it has no entry, a Pending
\* entry or a Failed entry.
C3_LookupOnlyResolved ==
    \A p \in DOMAIN loads \cup {0} :
        \A r \in (IF p = 0 THEN {lastReq}
                  ELSE {loads[p].reqs[i] : i \in DOMAIN loads[p].reqs}) :
            r.id # 0 =>
                /\ r.seen.k = "value" => (r.ok /\ r.ret = r.seen)
                /\ r.seen.k # "value" => ~r.ok

\* the dependency calls of load p that resolve to p's own identity
SelfDeps(p) ==
    {i \in DOMAIN loads[p].depCalls : calls[loads[p].depCalls[i]].id = loads[p].id}
OthersSettled(p) ==
    \A i \in DOMAIN loads[p].depCalls : i \notin SelfDeps(p) => DepOuts(p)[i] # NoVal

\* C4: a script module that lists a reference to its own identity does not
\* deadlock: when it awaits nothing but itself its load can go on, and once
\* done the value its lookup of that reference saw is the value the load returns.
C4_SelfImportCompletes ==
    \A p \in DOMAIN loads :
        SelfDeps(p) # {} =>
            /\ (loads[p].pc = "deps" /\ OthersSettled(p)) => (DepsAllOk(p) \/ DepsAnyErr(p))
            /\ loads[p].pc = "done" =>
                  \A i \in SelfDeps(p) : loads[p].reqs[i].ret = Value(loads[p].out)

\* C4 as amended: such a module awaits its own Pending entry in loadDeps: its
\* code is never run, its entry never becomes Resolved, and its load fails
\* only through the failure of another dependency.
C4_SelfImportDeadlocks ==
    \A p \in DOMAIN loads :
        SelfDeps(p) # {} =>
            /\ loads[p].pc \in {"deps", "failed"}
            /\ cnt[loads[p].id].exec = 0
            /\ loads[p].exports = NoVal
            /\ moduleCache[loads[p].id] = Loading(p)
            /\ loads[p].pc = "failed" =>
                  /\ loads[p].ld = "fail"
                  /\ \E i \in DOMAIN DepOuts(p) :
                        i \notin SelfDeps(p) /\ loads[p].out = DepOuts(p)[i]

\* the module waits for itself alone: every other dependency has resolved
C4_Witness ==
    \E p \in DOMAIN loads :
        /\ SelfDeps(p) # {}
        /\ loads[p].pc = "deps"
        /\ \A i \in DOMAIN loads[p].depCalls : i \notin SelfDeps(p) => IsVal(DepOuts(p)[i])
        /\ \E i \in DOMAIN loads[p].depCalls : i \notin SelfDeps(p)
        /\ \E c \in UserCalls : calls[c].id = loads[p].id /\ Result(c) = NoVal

Terminal(ls, mc, id) == mc[id].k = "value" \/ Failed(ls, mc, id)

\* C5: an entry that is Resolved, or Failed (a Loading whose promise has
\* rejected), is never changed by any later step.
C5_TerminalImmutable ==
    [][\A id \in Ids : Terminal(loads, moduleCache, id) =>
          /\ moduleCache'[id] = moduleCache[id]
          /\ Failed(loads, moduleCache, id) =>
                loads'[moduleCache[id].p].out = loads[moduleCache[id].p].out]_vars

\* a Resolved and a Failed entry, each the target of a later call and both
\* still in place
C5_Witness ==
    \E i \in Ids : \E j \in Ids : \E c \in CallsOf(i) : \E d \in CallsOf(j) :
        /\ moduleCache[i].k = "value"
        /\ calls[c].saw = "value"
        /\ Failed(loads, moduleCache, j)
        /\ calls[d].saw = "failed"

LdDone(p) == loads[p].ld \in {"ok", "fail"}

\* C9: loadDeps starts one call per reference at once, completes only after
\* every one of them has resolved or failed, and fails iff one of them failed.
C9_WaitsForAll ==
    \A p \in DOMAIN loads :
        /\ loads[p].ld # "none" => Len(loads[p].depCalls) = Len(loads[p].deps)
        /\ LdDone(p) =>
              /\ \A i \in DOMAIN DepOuts(p) : DepOuts(p)[i] # NoVal
              /\ loads[p].ld = "fail" <=> DepsAnyErr(p)

\* C9 as amended: loadDeps starts one call per reference at once; it succeeds
\* only after every one of them has resolved; it fails as soon as one has
\* failed, with that error, whether or not the others have settled.
C9_FailFast ==
    \A p \in DOMAIN loads :
        /\ loads[p].ld # "none" =>
              /\ Len(loads[p].depCalls) = Len(loads[p].deps)
              /\ \A i \in DOMAIN loads[p].depCalls :
                    /\ loads[p].depCalls[i] \in DOMAIN calls
                    /\ calls[loads[p].depCalls[i]].from = p
                    /\ calls[loads[p].depCalls[i]].kind = "dep"
                    /\ calls[loads[p].depCalls[i]].rel = loads[p].deps[i]
        /\ loads[p].ld = "ok" => \A i \in DOMAIN DepOuts(p) : IsVal(DepOuts(p)[i])
        /\ loads[p].ld = "fail" =>
              \E i \in DOMAIN DepOuts(p) :
                  IsErr(DepOuts(p)[i]) /\ loads[p].out = DepOuts(p)[i]
        /\ DepsAnyErr(p) => loads[p].ld \in {"wait", "fail"}

\* loadDeps has failed while another of its loads is still pending
C9_Witness ==
    \E p \in DOMAIN loads :
        /\ loads[p].ld = "fail"
        /\ \E i \in DOMAIN DepOuts(p) : DepOuts(p)[i] = NoVal

\* C10: when loadDeps fails, its module is not run, and every dependency of it
\* that resolved keeps its Resolved entry: its body ran once, and each later
\* call or lookup of it returns that value at once.
C10_PartialFailureKeepsSiblings ==
    \A p \in DOMAIN loads :
        loads[p].ld = "fail" =>
            /\ loads[p].pc = "failed"
            /\ cnt[loads[p].id].exec = 0
            /\ \A i \in DOMAIN DepOuts(p) :
                  IsVal(DepOuts(p)[i]) =>
                      LET d == calls[loads[p].depCalls[i]].id IN
                      /\ moduleCache[d] = Value(DepOuts(p)[i])
                      /\ Cardinality(LoadsOf(loads, d)) = 1
                      /\ AtMostOnce(d)
                      /\ \A c \in CallsOf(d) :
                            calls[c].saw = "value" =>
                                (calls[c].waits = 0 /\ calls[c].imm = DepOuts(p)[i])
                      /\ (lastReq.id = d /\ lastReq.seen.k = "value") =>
                            (lastReq.ok /\ lastReq.ret = Value(DepOuts(p)[i]))

\* loadDeps failed on one dependency; its sibling resolved and a later call of
\* the sibling got the value from the cache
C10_Witness ==
    \E p \in DOMAIN loads : \E i \in DOMAIN loads[p].depCalls :
        /\ loads[p].ld = "fail"
        /\ IsVal(DepOuts(p)[i])
        /\ \E c \in CallsOf(calls[loads[p].depCalls[i]].id) :
              /\ calls[c].saw = "value"
              /\ Result(c) = DepOuts(p)[i]

\* the dependency calls of load p, as identities
DepIds(p) == {calls[loads[p].depCalls[i]].id : i \in DOMAIN loads[p].depCalls}
\* what load p's code got from require for identity s
Got(p, s) == {loads[p].reqs[i].ret : i \in {j \in DOMAIN loads[p].reqs : loads[p].reqs[j].id = s}}
\* loads a and b are siblings started by one loadDeps call and share dependency s
Diamond(a, b, s) ==
    /\ a # b
    /\ \E r \in DOMAIN loads : \E i \in DOMAIN loads[r].depCalls :
          \E j \in DOMAIN loads[r].depCalls :
              /\ calls[loads[r].depCalls[i]].waits = a
              /\ calls[loads[r].depCalls[j]].waits = b
    /\ s \in DepIds(a) \cap DepIds(b)

\* C11: when two siblings started by one loadDeps call share a dependency, the
\* shared module has one load and is fetched, transformed and executed at most
\* once (exactly once when a sibling has run), and the values the siblings
\* got for it from require are one and the same exports object.
C11_DiamondSharedOnce ==
    \A a \in DOMAIN loads : \A b \in DOMAIN loads : \A s \in Ids :
        Diamond(a, b, s) =>
            /\ Cardinality(LoadsOf(loads, s)) = 1
            /\ cnt[s].fetch <= 1 /\ cnt[s].transform <= 1 /\ cnt[s].exec <= 1
            /\ (Got(a, s) # {} /\ cnt[s].transform = 1) =>
                  (cnt[s].fetch = 1 /\ cnt[s].exec = 1)
            /\ \A x \in Got(a, s) : \A y \in Got(b, s) :
                  /\ x = y
                  /\ x = moduleCache[s]
                  /\ x.k = "value"

\* both siblings have run and each got the shared module's exports
C11_Witness ==
    \E a \in DOMAIN loads : \E b \in DOMAIN loads : \E s \in Ids :
        /\ Diamond(a, b, s)
        /\ Got(a, s) # {} /\ Got(b, s) # {}
        /\ \A x \in Got(a, s) \cup Got(b, s) : x.k = "value" /\ x.v.t = "exports"
        /\ cnt[s].fetch = 1 /\ cnt[s].transform = 1 /\ cnt[s].exec = 1
        /\ loads[a].pc = "done" /\ loads[b].pc = "done"

ImportCalls == {c \in DOMAIN calls : calls[c].kind = "imp"}
\* what require(rel) would return to the module that made call c, now
LookupNow(c) == require(moduleCache, calls[c].from, loads[calls[c].from].id, calls[c].rel)

\* C12: import__ of a reference is a loadModuleInternal call for the identity
\* the reference resolves to; when the identity had no entry it starts the
\* one load of it; and once the import holds a value, require of the same
\* reference from the same module returns that value.
C12_ImportThenLookup ==
    \A c \in ImportCalls :
        /\ calls[c].id = GetResourceId(loads[calls[c].from].id, calls[c].rel)
        /\ calls[c].saw = "absent" =>
              /\ calls[c].waits \in DOMAIN loads
              /\ loads[calls[c].waits].id = calls[c].id
              /\ cnt[calls[c].id].hook + cnt[calls[c].id].fetch >= 1
        /\ IsVal(Result(c)) =>
              /\ LookupNow(c).ok
              /\ LookupNow(c).ret = Value(Result(c))

\* an import of an identity that had no entry has completed with a value
C12_Witness ==
    \E c \in ImportCalls :
        /\ calls[c].saw = "absent"
        /\ IsVal(Result(c))
        /\ LookupNow(c).ret = Value(Result(c))
        /\ cnt[calls[c].id].fetch = 1

\* the built-in dispatch of load p on type tag tag, as a step
Builtin(p, tag) ==
    LET id == loads[p].id IN
    CASE tag = ".vue" ->
            /\ loads'[p].pc = "sfc"
            /\ cnt'[id].sfc = cnt[id].sfc + 1
            /\ cnt'[id].transform = cnt[id].transform
            /\ moduleCache' = moduleCache
      [] tag \in {".js", ".mjs"} ->
            /\ loads'[p].pc = (IF CacheOn THEN "cacheGet" ELSE "transform")
            /\ cnt'[id].sfc = cnt[id].sfc
            /\ cnt'[id].transform = cnt[id].transform + (IF CacheOn THEN 0 ELSE 1)
            /\ moduleCache' = moduleCache
      [] OTHER ->
            /\ loads'[p].pc = "failed"
            /\ loads'[p].out = V("E_unsupported", id, TagNo(tag))
            /\ cnt'[id].sfc = cnt[id].sfc
            /\ cnt'[id].transform = cnt[id].transform
            /\ moduleCache' = moduleCache

\* the handler's value v becomes the module value of load p
HandledAs(p, v) ==
    /\ loads'[p].pc = "done"
    /\ loads'[p].out = v
    /\ moduleCache'[loads[p].id] = Value(v)
    /\ cnt'[loads[p].id].sfc = cnt[loads[p].id].sfc
    /\ cnt'[loads[p].id].transform = cnt[loads[p].id].transform

\* C13: with a handleModule configured, fetched string content goes to it
\* first and what it returns is the module value; when none is configured or
\* it returns undefined, '.vue' goes to the component compiler and '.js' and
\* '.mjs' to the script path; any other tag fails the load with an
\* unsupported-type error naming the tag and the identity, and the entry of a
\* load whose own dispatch failed so is never Resolved.
C13_DispatchPolicy ==
    /\ [](\A p \in DOMAIN loads :
            (loads[p].out.t = "E_unsupported" /\ loads[p].ld = "none") =>
                /\ loads[p].pc = "failed"
                /\ loads[p].out.id = loads[p].id
                /\ ExtSeq[loads[p].out.n] \notin {".vue", ".js", ".mjs"}
                /\ moduleCache[loads[p].id] = Loading(p))
    /\ [][\A p \in DOMAIN loads :
            /\ \A r \in Extnames :
                  FetchReturn(p, r) =>
                      IF cfg.hasHandle
                      THEN /\ loads'[p].pc = r
                           /\ cnt'[loads[p].id].handle = cnt[loads[p].id].handle + 1
                           /\ cnt'[loads[p].id].sfc = cnt[loads[p].id].sfc
                           /\ cnt'[loads[p].id].transform = cnt[loads[p].id].transform
                           /\ moduleCache' = moduleCache
                      ELSE cnt'[loads[p].id].handle = 0 /\ Builtin(p, r)
            /\ HandleReturn(p, "value") => HandledAs(p, V("handled", loads[p].id, 0))
            /\ HandleReturn(p, "null") => HandledAs(p, V("null", 0, 0))
            /\ HandleReturn(p, "undefined") => Builtin(p, loads[p].pc)]_vars

\* a handler was configured and declined, and the built-in dispatch did not
\* know the tag either
C13_Witness ==
    \E p \in DOMAIN loads :
        /\ cfg.hasHandle
        /\ cnt[loads[p].id].handle = 1
        /\ loads[p].out = V("E_unsupported", loads[p].id, TagNo(".txt"))
        /\ moduleCache[loads[p].id] = Loading(p)

\* a step in which the body of load p raises an error
Raises(p) ==
    \/ HookReturn(p, "throw")
    \/ FetchReturn(p, "reject")
    \/ FetchReturn(p, "nonstring")
    \/ ~cfg.hasHandle /\ FetchReturn(p, ".txt")
    \/ HandleReturn(p, "throw")
    \/ loads[p].pc = ".txt" /\ HandleReturn(p, "undefined")
    \/ SfcReturn(p, FALSE)
    \/ TransformReturn(p, FALSE)
    \/ \E dyn \in Rels \cup {NoRel} : Exec(p, dyn, "throw")
    \/ \E i \in 1..NIds : DepsFail(p, i)

\* C14: an error raised in the load of an identity (by the hook, the fetch,
\* non-string content, the dispatch, the transform, a failed dependency or the
\* module's code) fails the load at that step; every call for the identity,
\* made before or after, holds that error and none holds a value, and the
\* entry is never Resolved.  A reference that cannot be resolved fails its
\* call with the resolver's error.
C14_ErrorsReachAllCallers ==
    /\ [](/\ \A p \in DOMAIN loads :
              loads[p].pc = "failed" =>
                  /\ IsErr(loads[p].out)
                  /\ moduleCache[loads[p].id] = Loading(p)
                  /\ \A c \in CallsOf(loads[p].id) : Result(c) = loads[p].out
          /\ \A c \in DOMAIN calls :
              calls[c].rel = BadRel => Result(c) = V("E_resolve", 0, 0))
    /\ [][\A p \in DOMAIN loads :
            Raises(p) =>
                /\ loads'[p].pc = "failed"
                /\ IsErr(loads'[p].out)
                /\ moduleCache'[loads[p].id] = Loading(p)
                /\ \A c \in DOMAIN calls' :
                      calls'[c].id = loads[p].id =>
                          CallOut(loads', calls'[c]) = loads'[p].out]_vars

\* the module's code threw; the call that started the load, one that joined
\* it and one made after the failure all hold the error
C14_Witness ==
    \E p \in DOMAIN loads : \E c1 \in CallsOf(loads[p].id) :
        \E c2 \in CallsOf(loads[p].id) : \E c3 \in CallsOf(loads[p].id) :
            /\ loads[p].out = V("E_exec", loads[p].id, 0)
            /\ calls[c1].saw = "absent"
            /\ calls[c2].saw = "pending"
            /\ calls[c3].saw = "failed"
            /\ Result(c1) = loads[p].out
            /\ Result(c2) = loads[p].out
            /\ Result(c3) = loads[p].out

Null == V("null", 0, 0)

\* C15: when handleModule returns null the load resolves with null and the
\* entry is the value null: the built-in dispatch is not tried, the load body
\* of that identity runs once, every call for it holds null, a call made after
\* it resolved returns at once, and no later step changes the entry or runs
\* any part of the load again.
C15_NullIsAValue ==
    /\ [](\A p \in DOMAIN loads :
            loads[p].out = Null =>
                LET id == loads[p].id IN
                /\ loads[p].pc = "done"
                /\ moduleCache[id] = Value(Null)
                /\ LoadsOf(loads, id) = {p}
                /\ cnt[id].fetch = 1 /\ cnt[id].handle = 1
                /\ cnt[id].sfc = 0 /\ cnt[id].transform = 0 /\ cnt[id].exec = 0
                /\ \A c \in CallsOf(id) :
                      /\ Result(c) = Null
                      /\ calls[c].saw = "value" => calls[c].waits = 0)
    /\ [][\A id \in Ids :
            moduleCache[id] = Value(Null) =>
                (moduleCache'[id] = Value(Null) /\ cnt'[id] = cnt[id])]_vars

\* a call made after the identity resolved with null got null from the cache
C15_Witness ==
    \E id \in Ids : \E c \in CallsOf(id) :
        /\ moduleCache[id] = Value(Null)
        /\ calls[c].saw = "value"
        /\ calls[c].waits = 0
        /\ Result(c) = Null
        /\ cnt[id].fetch = 1

\* load p's code has been started
Started(p) == cnt[loads[p].id].exec > 0

\* C16: on the script path a module's code is started only after loadDeps
\* succeeded: the step that starts it finds a Resolved entry for every
\* reference of the dependency list, each require of such a reference made by
\* the code returned that entry, and the code of a module whose loadDeps
\* failed is never started.
C16_DepsBeforeExecution ==
    /\ [](\A p \in DOMAIN loads :
            /\ Started(p) =>
                  /\ loads[p].ld = "ok"
                  /\ Len(loads[p].reqs) = Len(loads[p].deps)
                  /\ \A i \in DOMAIN loads[p].reqs :
                        /\ loads[p].reqs[i].rel = loads[p].deps[i]
                        /\ loads[p].reqs[i].seen.k = "value"
                        /\ loads[p].reqs[i].ok
                        /\ loads[p].reqs[i].ret = loads[p].reqs[i].seen
                        /\ loads[p].reqs[i].ret = Value(DepOuts(p)[i])
            /\ loads[p].pc \in {"executed", "done"} /\ loads[p].ld # "none" => Started(p)
            /\ loads[p].ld = "fail" =>
                  (~Started(p) /\ cnt[loads[p].id].exec = 0 /\ loads[p].pc = "failed"))
    /\ [][\A p \in DOMAIN loads :
            cnt'[loads[p].id].exec # cnt[loads[p].id].exec =>
                /\ loads[p].ld = "wait"
                /\ \A i \in DOMAIN loads[p].deps :
                      moduleCache[GetResourceId(loads[p].id, loads[p].deps[i])].k = "value"]_vars

\* a module with two dependencies has run and looked both up
C16_Witness ==
    \E p \in DOMAIN loads :
        /\ Len(loads[p].deps) = 2
        /\ loads[p].pc = "done"
        /\ Len(loads[p].reqs) = 2
        /\ \A i \in DOMAIN loads[p].reqs : loads[p].reqs[i].ok
        /\ loads[p].reqs[1].id # loads[p].reqs[2].id

\* loads a and b are script modules that list each other
Cyclic(ls, a, b) ==
    /\ a # b
    /\ ls[b].id \in {GetResourceId(ls[a].id, ls[a].deps[i]) : i \in DOMAIN ls[a].deps}
    /\ ls[a].id \in {GetResourceId(ls[b].id, ls[b].deps[i]) : i \in DOMAIN ls[b].deps}

\* C17: when two script modules list each other, from the moment both have
\* called loadDeps both loads stay in loadDeps: the entries of both stay
\* Loading, no call for either identity ever holds a value or an error, and
\* neither module's code is run.
C17_CycleDeadlocks ==
    /\ [](\A a \in DOMAIN loads : \A b \in DOMAIN loads :
            Cyclic(loads, a, b) =>
                /\ loads[a].pc = "deps" /\ loads[a].ld = "wait" /\ loads[a].out = NoVal
                /\ moduleCache[loads[a].id] = Loading(a)
                /\ cnt[loads[a].id].exec = 0
                /\ \A c \in CallsOf(loads[a].id) : Result(c) = NoVal
                /\ ~DepsAllOk(a) /\ ~DepsAnyErr(a))
    /\ [][\A a \in DOMAIN loads : \A b \in DOMAIN loads :
            Cyclic(loads, a, b) =>
                /\ Cyclic(loads', a, b)
                /\ loads'[a] = loads[a]
                /\ moduleCache'[loads[a].id] = moduleCache[loads[a].id]]_vars

\* the cycle has closed under a caller that waits for one of the two, and
\* the outside caller has used up its calls
C17_Witness ==
    \E a \in DOMAIN loads : \E b \in DOMAIN loads :
        /\ Cyclic(loads, a, b)
        /\ \E c \in UserCalls : calls[c].waits = a /\ Result(c) = NoVal
        /\ Cardinality(UserCalls) = MaxUserCalls

\* the step installs a Loading entry for the absent identity id: a call made
\* in this step found it absent and started load p for it
Installs(id) ==
    /\ moduleCache[id] = Absent
    /\ \E p \in DOMAIN loads' :
          /\ p \notin DOMAIN loads
          /\ loads'[p].id = id
          /\ moduleCache'[id] = Loading(p)
          /\ \E c \in DOMAIN calls' :
                /\ c \notin DOMAIN calls
                /\ calls'[c].id = id
                /\ calls'[c].waits = p
                /\ calls'[c].from \in {0} \cup DOMAIN loads

\* the step replaces the Loading entry of id by the value its load returns
Resolves(id) ==
    \E p \in DOMAIN loads :
        /\ moduleCache[id] = Loading(p)
        /\ loads[p].id = id
        /\ loads[p].pc \notin {"done", "failed"}
        /\ loads'[p].pc = "done"
        /\ moduleCache'[id] = Value(loads'[p].out)

\* C18: a step changes a module cache entry only by installing a Loading
\* entry for an absent identity that a loadModuleInternal call of that step
\* asked for, or by replacing the Loading entry of a load by that load's
\* value; the calls of one step come from one caller; a lookup, the running
\* of a module's code, a step of withCache alone and the rejection of
\* loadDeps change no entry.
C18_ModuleCacheFrame ==
    [][/\ \A id \in Ids :
             moduleCache'[id] # moduleCache[id] => (Installs(id) \/ Resolves(id))
       /\ lastReq' # lastReq => moduleCache' = moduleCache
       /\ (\E id \in Ids : cnt'[id].exec # cnt[id].exec) => moduleCache' = moduleCache
       /\ \A c1 \in DOMAIN calls' : \A c2 \in DOMAIN calls' :
             (c1 \notin DOMAIN calls /\ c2 \notin DOMAIN calls) =>
                 calls'[c1].from = calls'[c2].from
       /\ \A p \in DOMAIN loads :
             (loads'[p].pc \in {"transform", "cacheSet", "failed"} /\ loads'[p] # loads[p])
                 => moduleCache' = moduleCache]_vars

\* a lookup that found nothing left the identity absent, beside an entry that
\* was installed and resolved and one that was installed and failed
C18_Witness ==
    /\ lastReq.id # 0
    /\ ~lastReq.ok
    /\ moduleCache[lastReq.id] = Absent
    /\ \E i \in Ids : moduleCache[i].k = "value"
    /\ \E j \in Ids : Failed(loads, moduleCache, j)

SettledLoad(p) == loads[p].pc \in {"done", "failed"}
AllSettled == \A p \in DOMAIN loads : SettledLoad(p)

\* C19: on an acyclic graph, with every collaborator returning, again and
\* again all loads started so far have resolved or failed and all calls hold
\* a value or an error (a settled load stays settled and loads are started
\* finitely often, so every load settles); and when all loads have settled
\* every entry is a value or the Loading of a failed load.
C19_AcyclicTerminates ==
    /\ []<>(AllSettled /\ \A c \in DOMAIN calls : Result(c) # NoVal)
    /\ [](AllSettled =>
            \A id \in Ids :
                moduleCache[id].k = "loading" => loads[moduleCache[id].p].pc = "failed")

\* the whole diamond has been loaded: four loads, all resolved
C19_Witness ==
    /\ cfg.graph = G_diamond
    /\ Len(loads) = NIds
    /\ \A p \in DOMAIN loads : loads[p].pc = "done"
    /\ \A c \in UserCalls : IsVal(Result(c))

\* C20: a value that options.loadModule returns for an identity becomes its
\* entry and the result of every call for it, and for that identity neither
\* getContent nor handleModule nor the built-in dispatch nor the code is run;
\* when the hook returns undefined the load goes on from getContent in the
\* state a load without a hook starts in.
C20_HookOverrides ==
    /\ [](\A p \in DOMAIN loads :
            loads[p].out.t = "hook" /\ loads[p].out.id = loads[p].id =>
                LET id == loads[p].id IN
                /\ cfg.hasHook
                /\ loads[p].pc = "done"
                /\ moduleCache[id] = Value(loads[p].out)
                /\ cnt[id] = [ZeroCnt EXCEPT !.hook = 1]
                /\ \A c \in CallsOf(id) : Result(c) = loads[p].out)
    /\ [][\A p \in DOMAIN loads :
            /\ HookReturn(p, "value") =>
                  /\ loads'[p].out = V("hook", loads[p].id, 0)
                  /\ moduleCache'[loads[p].id] = Value(V("hook", loads[p].id, 0))
                  /\ cnt' = cnt
            /\ HookReturn(p, "undefined") =>
                  /\ loads'[p] = NewLoad(loads[p].id, "fetch")
                  /\ cnt'[loads[p].id] = [ZeroCnt EXCEPT !.hook = 1, !.fetch = 1]
                  /\ moduleCache' = moduleCache]_vars

\* the hook supplied a dependency: the call that started the load and a later
\* one hold the hook's value, and nothing was fetched for it
C20_Witness ==
    \E p \in DOMAIN loads : \E c1 \in CallsOf(loads[p].id) : \E c2 \in CallsOf(loads[p].id) :
        /\ loads[p].out = V("hook", loads[p].id, 0)
        /\ calls[c1].saw = "absent"
        /\ calls[c2].saw = "value"
        /\ Result(c1) = loads[p].out
        /\ Result(c2) = loads[p].out
        /\ cnt[loads[p].id].fetch = 0

====
